---------------------------- MODULE Spec2Model ----------------------------
(***************************************************************************)
(* Model of the vim-zellij-navigator plugin (src/src/main.rs): a zellij    *)
(* plugin that queues directional commands received on a pipe, asks the    *)
(* host for the client list, and on each RunCommandResult dispatches one   *)
(* queued command either as injected keystrokes (vim / nvim in the pane)   *)
(* or as a native zellij action.                                           *)
(*                                                                         *)
(* Text and keystrokes are modelled as sequences of code points (a char   *)
(* is its Unicode scalar value), Option<T> as a sequence of length 0 or 1. *)
(***************************************************************************)
EXTENDS Integers, Sequences, FiniteSets, TLC

VARIABLES
    pc,                    \* "load" | "running" | "aborted" (a panic unwound the handler)
    permissions_granted,   \* State.permissions_granted
    current_term_command,  \* State.current_term_command : Option<String>
    command_queue,         \* State.command_queue : VecDeque<Command>; each entry carries
                           \* a history tag (see Entry) beside its command
    move_mod,              \* State.move_mod
    resize_mod,            \* State.resize_mod
    hidden,                \* host: hide_self() has been called
    permission_pending,    \* host: request_permission() is still unanswered
    probes,                \* host: one status per run_command call, in call order
    event,                 \* the event the host delivered last, with its input
    effects,               \* what handling that event did: entries popped, calls made
    enqueues,              \* history: number of push_back so far
    dequeues,              \* history: number of pop_front so far
    completions,           \* history: number of RunCommandResult events handled
    ignored                \* history: number of pipe messages that parsed to no command

vars == <<pc, permissions_granted, current_term_command, command_queue, move_mod,
          resize_mod, hidden, permission_pending, probes, event, effects, enqueues,
          dequeues, completions, ignored>>

-----------------------------------------------------------------------------
(* Option<T> *)

None == <<>>

Some(x) == <<x>>

-----------------------------------------------------------------------------
(* Text: the str operations main.rs uses *)

\* the ASCII characters U+0020 .. U+005F in this order
Printable ==
    <<" ", "!", "\"", "#", "$", "%", "&", "'", "(", ")", "*", "+", ",", "-", ".", "/",
      "0", "1", "2", "3", "4", "5", "6", "7", "8", "9", ":", ";", "<", "=", ">", "?",
      "@", "A", "B", "C", "D", "E", "F", "G", "H", "I", "J", "K", "L", "M", "N", "O",
      "P", "Q", "R", "S", "T", "U", "V", "W", "X", "Y", "Z", "[", "\\", "]", "^", "_">>

\* the ASCII characters U+0061 .. U+007E in this order
PrintableLower ==
    <<"a", "b", "c", "d", "e", "f", "g", "h", "i", "j", "k", "l", "m", "n", "o",
      "p", "q", "r", "s", "t", "u", "v", "w", "x", "y", "z", "{", "|", "}", "~">>

\* a char literal of main.rs: the code point of an ASCII character
char(c) ==
    CASE c = "\t" -> 9
      [] c = "\n" -> 10
      [] c = "\f" -> 12
      [] c = "\r" -> 13
      [] \E k \in DOMAIN Printable : Printable[k] = c ->
             31 + CHOOSE k \in DOMAIN Printable : Printable[k] = c
      [] OTHER -> 96 + CHOOSE k \in DOMAIN PrintableLower : PrintableLower[k] = c

\* a string literal of main.rs, or an ASCII text: the code points of its characters
str(chars) == [i \in 1..Len(chars) |-> char(chars[i])]

\* char::is_whitespace: the code points of Unicode White_Space
is_whitespace(c) ==
    \/ c \in 9..13
    \/ c \in {32, 133, 160, 5760, 8232, 8233, 8239, 8287, 12288}
    \/ c \in 8192..8202

\* the k-th smallest element of a set of positions
nth(positions, k) ==
    CHOOSE i \in positions : Cardinality({j \in positions : j < i}) = k - 1

\* str::split(ch): the pieces between the occurrences of ch, empty pieces kept
split(s, ch) ==
    LET at == {i \in 1..Len(s) : s[i] = ch}
        n == Cardinality(at)
        cut(k) == IF k = 0 THEN 0 ELSE IF k = n + 1 THEN Len(s) + 1 ELSE nth(at, k)
    IN  [k \in 1..(n + 1) |-> SubSeq(s, cut(k - 1) + 1, cut(k) - 1)]

\* str::split_whitespace: the maximal runs of characters that are not whitespace
split_whitespace(s) ==
    LET starts == {i \in 1..Len(s) :
                      ~is_whitespace(s[i]) /\ (i = 1 \/ is_whitespace(s[i - 1]))}
        ends == {i \in 1..Len(s) :
                    ~is_whitespace(s[i]) /\ (i = Len(s) \/ is_whitespace(s[i + 1]))}
    IN  [k \in 1..Cardinality(starts) |-> SubSeq(s, nth(starts, k), nth(ends, k))]

starts_with_exact(s, prefix) == s = prefix

\* str::starts_with
starts_with(s, prefix) ==
    /\ Len(s) >= Len(prefix)
    /\ SubSeq(s, 1, Len(prefix)) = prefix

\* Iterator::skip(n) collected
skip(items, n) == SubSeq(items, n + 1, Len(items))

first_item(items) == IF items = <<>> THEN None ELSE Some(items[1])

\* Iterator::last
last(items) == IF items = <<>> THEN None ELSE Some(items[Len(items)])

str_terminal == str(<<"t", "e", "r", "m", "i", "n", "a", "l">>)

str_NA == str(<<"N", "/", "A">>)

str_vim == str(<<"v", "i", "m">>)

str_nvim == str(<<"n", "v", "i", "m">>)

-----------------------------------------------------------------------------
(* The occupant classifier *)

term_command_from_client_list(cl) ==
    LET clients == skip(split(cl, char("\n")), 1) IN
    IF clients = <<>> THEN None
    ELSE
        LET columns == split_whitespace(clients[1]) IN
        IF Len(columns) < 3 THEN None
        ELSE
            LET is_terminal == starts_with(columns[2], str_terminal)
                no_command == columns[3] = str_NA
            IN  IF ~is_terminal \/ no_command THEN None
                ELSE last(split(columns[3], char("/")))


-----------------------------------------------------------------------------
(* Probe outputs: the text of `zellij action list-clients`, built from rows *)
(* of columns so that a claim can speak of "the first data line's column   *)
(* 3". A table is [rows, sep, newline]: rows[1] is the header; a column is *)
(* a non-empty sequence of '/'-separated segments.                         *)

RECURSIVE join(_, _)
join(pieces, sep) ==
    IF pieces = <<>> THEN <<>>
    ELSE IF Len(pieces) = 1 THEN pieces[1]
    ELSE pieces[1] \o sep \o join(Tail(pieces), sep)

render_column(column) == join(column, str(<<"/">>))

render_row(row, sep) == join([i \in 1..Len(row) |-> render_column(row[i])], sep)

\* the bytes the host hands over, decoded
render(table) ==
    join([i \in 1..Len(table.rows) |-> render_row(table.rows[i], table.sep)], str(<<"\n">>))
        \o (IF table.newline THEN str(<<"\n">>) ELSE <<>>)

seg_usr == str(<<"u", "s", "r">>)

seg_bin == str(<<"b", "i", "n">>)

seg_bash == str(<<"b", "a", "s", "h">>)

seg_vi == str(<<"v", "i">>)

seg_vimdiff == str(<<"v", "i", "m", "d", "i", "f", "f">>)

seg_N == str(<<"N">>)

seg_A == str(<<"A">>)

col_client == << str(<<"1">>) >>

col_terminal_0 == << str_terminal \o str(<<"_", "0">>) >>

col_terminal == << str_terminal >>

col_term == << str(<<"t", "e", "r", "m">>) >>

col_plugin_1 == << str(<<"p", "l", "u", "g", "i", "n", "_", "1">>) >>

col_NA == <<seg_N, seg_A>>

header_row == << << str(<<"C", "L", "I", "E", "N", "T", "_", "I", "D">>) >>,
                 << str(<<"Z", "E", "L", "L", "I", "J", "_", "P", "A", "N", "E", "_", "I", "D">>) >>,
                 << str(<<"R", "U", "N", "N", "I", "N", "G", "_", "C", "O", "M", "M", "A", "N", "D">>) >> >>

row_of(pane, command) == <<col_client, pane, command>>

table_of(rows) == [rows |-> rows, sep |-> str(<<" ">>), newline |-> TRUE]

\* what the host reports in the router's runs: vim, nvim, two other programs,
\* a shell without child
HostTables ==
    { table_of(<<header_row, row_of(col_terminal_0, <<<<>>, seg_usr, seg_bin, str_vim>>)>>),
      table_of(<<header_row, row_of(col_terminal_0, <<str_nvim>>)>>),
      table_of(<<header_row, row_of(col_terminal_0, <<<<>>, seg_bin, seg_bash>>)>>),
      table_of(<<header_row, row_of(col_terminal_0, <<<<>>, seg_usr, seg_bin, seg_vimdiff>>)>>),
      table_of(<<header_row, row_of(col_terminal_0, col_NA)>>) }

-----------------------------------------------------------------------------
(* Keybindings *)

Directions == {"Left", "Right", "Up", "Down"}

Kinds == {"MoveFocus", "MoveFocusOrTab", "Resize"}

Mods == {"Ctrl", "Alt"}

Command(kind, direction) == [kind |-> kind, direction |-> direction]

ctrl_keybinding(direction) ==
    CASE direction = "Left" -> <<8>>
      [] direction = "Right" -> <<12>>
      [] direction = "Up" -> <<11>>
      [] direction = "Down" -> <<10>>

alt_keybinding_shared_key(direction) ==
    CASE direction = "Left" -> <<27, 33>>
      [] direction = "Up" -> <<27, 64>>
      [] direction = "Right" -> <<27, 33>>
      [] direction = "Down" -> <<27, 36>>

alt_keybinding(direction) ==
    CASE direction = "Left" -> <<27, 33>>
      [] direction = "Up" -> <<27, 64>>
      [] direction = "Right" -> <<27, 35>>
      [] direction = "Down" -> <<27, 36>>

command_to_keybind_move_mod_only(mv, rs, command) ==
    IF mv = "Ctrl" THEN ctrl_keybinding(command.direction)
    ELSE alt_keybinding(command.direction)

command_to_keybind(mv, rs, command) ==
    LET mod_key == IF command.kind \in {"MoveFocus", "MoveFocusOrTab"} THEN mv ELSE rs
    IN  IF mod_key = "Ctrl" THEN ctrl_keybinding(command.direction)
        ELSE alt_keybinding(command.direction)

-----------------------------------------------------------------------------
(* Parsing of pipe messages and of the configuration *)

string_to_direction_any_case(s) ==
    CASE s \in {"left", "Left"} -> Some("Left")
      [] s \in {"right", "Right"} -> Some("Right")
      [] s \in {"up", "Up"} -> Some("Up")
      [] s \in {"down", "Down"} -> Some("Down")
      [] OTHER -> None

string_to_direction(s) ==
    CASE s = "left" -> Some("Left")
      [] s = "right" -> Some("Right")
      [] s = "up" -> Some("Up")
      [] s = "down" -> Some("Down")
      [] OTHER -> None

parse_command(pipe_message) ==
    IF pipe_message.payload = None THEN None
    ELSE
        LET direction == string_to_direction(pipe_message.payload[1]) IN
        IF direction = None THEN None
        ELSE CASE pipe_message.name = "move_focus" -> Some(Command("MoveFocus", direction[1]))
               [] pipe_message.name = "move_focus_or_tab" ->
                      Some(Command("MoveFocusOrTab", direction[1]))
               [] pipe_message.name = "resize" -> Some(Command("Resize", direction[1]))
               [] OTHER -> None

\* The tables of core::unicode are those of Unicode 17.0.0.
\* core::unicode::conversions::to_lower: the code points with a lower-case
\* mapping of one char, as <<first, last, step, delta>>: first, first + step,
\* .., last map to themselves plus delta
LOWERCASE_TABLE ==
    {
      <<65, 90, 1, 32>>, <<192, 214, 1, 32>>, <<216, 222, 1, 32>>, <<256, 302, 2, 1>>,
      <<306, 310, 2, 1>>, <<313, 327, 2, 1>>, <<330, 374, 2, 1>>, <<376, 376, 1, -121>>,
      <<377, 381, 2, 1>>, <<385, 385, 1, 210>>, <<386, 388, 2, 1>>, <<390, 390, 1, 206>>,
      <<391, 391, 1, 1>>, <<393, 394, 1, 205>>, <<395, 395, 1, 1>>, <<398, 398, 1, 79>>,
      <<399, 399, 1, 202>>, <<400, 400, 1, 203>>, <<401, 401, 1, 1>>, <<403, 403, 1, 205>>,
      <<404, 404, 1, 207>>, <<406, 406, 1, 211>>, <<407, 407, 1, 209>>, <<408, 408, 1, 1>>,
      <<412, 412, 1, 211>>, <<413, 413, 1, 213>>, <<415, 415, 1, 214>>, <<416, 420, 2, 1>>,
      <<422, 422, 1, 218>>, <<423, 423, 1, 1>>, <<425, 425, 1, 218>>, <<428, 428, 1, 1>>,
      <<430, 430, 1, 218>>, <<431, 431, 1, 1>>, <<433, 434, 1, 217>>, <<435, 437, 2, 1>>,
      <<439, 439, 1, 219>>, <<440, 440, 1, 1>>, <<444, 444, 1, 1>>, <<452, 452, 1, 2>>,
      <<453, 453, 1, 1>>, <<455, 455, 1, 2>>, <<456, 456, 1, 1>>, <<458, 458, 1, 2>>,
      <<459, 475, 2, 1>>, <<478, 494, 2, 1>>, <<497, 497, 1, 2>>, <<498, 500, 2, 1>>,
      <<502, 502, 1, -97>>, <<503, 503, 1, -56>>, <<504, 542, 2, 1>>, <<544, 544, 1, -130>>,
      <<546, 562, 2, 1>>, <<570, 570, 1, 10795>>, <<571, 571, 1, 1>>, <<573, 573, 1, -163>>,
      <<574, 574, 1, 10792>>, <<577, 577, 1, 1>>, <<579, 579, 1, -195>>, <<580, 580, 1, 69>>,
      <<581, 581, 1, 71>>, <<582, 590, 2, 1>>, <<880, 882, 2, 1>>, <<886, 886, 1, 1>>,
      <<895, 895, 1, 116>>, <<902, 902, 1, 38>>, <<904, 906, 1, 37>>, <<908, 908, 1, 64>>,
      <<910, 911, 1, 63>>, <<913, 929, 1, 32>>, <<931, 939, 1, 32>>, <<975, 975, 1, 8>>,
      <<984, 1006, 2, 1>>, <<1012, 1012, 1, -60>>, <<1015, 1015, 1, 1>>, <<1017, 1017, 1, -7>>,
      <<1018, 1018, 1, 1>>, <<1021, 1023, 1, -130>>, <<1024, 1039, 1, 80>>,
      <<1040, 1071, 1, 32>>, <<1120, 1152, 2, 1>>, <<1162, 1214, 2, 1>>, <<1216, 1216, 1, 15>>,
      <<1217, 1229, 2, 1>>, <<1232, 1326, 2, 1>>, <<1329, 1366, 1, 48>>,
      <<4256, 4293, 1, 7264>>, <<4295, 4295, 1, 7264>>, <<4301, 4301, 1, 7264>>,
      <<5024, 5103, 1, 38864>>, <<5104, 5109, 1, 8>>, <<7305, 7305, 1, 1>>,
      <<7312, 7354, 1, -3008>>, <<7357, 7359, 1, -3008>>, <<7680, 7828, 2, 1>>,
      <<7838, 7838, 1, -7615>>, <<7840, 7934, 2, 1>>, <<7944, 7951, 1, -8>>,
      <<7960, 7965, 1, -8>>, <<7976, 7983, 1, -8>>, <<7992, 7999, 1, -8>>,
      <<8008, 8013, 1, -8>>, <<8025, 8031, 2, -8>>, <<8040, 8047, 1, -8>>,
      <<8072, 8079, 1, -8>>, <<8088, 8095, 1, -8>>, <<8104, 8111, 1, -8>>,
      <<8120, 8121, 1, -8>>, <<8122, 8123, 1, -74>>, <<8124, 8124, 1, -9>>,
      <<8136, 8139, 1, -86>>, <<8140, 8140, 1, -9>>, <<8152, 8153, 1, -8>>,
      <<8154, 8155, 1, -100>>, <<8168, 8169, 1, -8>>, <<8170, 8171, 1, -112>>,
      <<8172, 8172, 1, -7>>, <<8184, 8185, 1, -128>>, <<8186, 8187, 1, -126>>,
      <<8188, 8188, 1, -9>>, <<8486, 8486, 1, -7517>>, <<8490, 8490, 1, -8383>>,
      <<8491, 8491, 1, -8262>>, <<8498, 8498, 1, 28>>, <<8544, 8559, 1, 16>>,
      <<8579, 8579, 1, 1>>, <<9398, 9423, 1, 26>>, <<11264, 11311, 1, 48>>,
      <<11360, 11360, 1, 1>>, <<11362, 11362, 1, -10743>>, <<11363, 11363, 1, -3814>>,
      <<11364, 11364, 1, -10727>>, <<11367, 11371, 2, 1>>, <<11373, 11373, 1, -10780>>,
      <<11374, 11374, 1, -10749>>, <<11375, 11375, 1, -10783>>, <<11376, 11376, 1, -10782>>,
      <<11378, 11378, 1, 1>>, <<11381, 11381, 1, 1>>, <<11390, 11391, 1, -10815>>,
      <<11392, 11490, 2, 1>>, <<11499, 11501, 2, 1>>, <<11506, 11506, 1, 1>>,
      <<42560, 42604, 2, 1>>, <<42624, 42650, 2, 1>>, <<42786, 42798, 2, 1>>,
      <<42802, 42862, 2, 1>>, <<42873, 42875, 2, 1>>, <<42877, 42877, 1, -35332>>,
      <<42878, 42886, 2, 1>>, <<42891, 42891, 1, 1>>, <<42893, 42893, 1, -42280>>,
      <<42896, 42898, 2, 1>>, <<42902, 42920, 2, 1>>, <<42922, 42922, 1, -42308>>,
      <<42923, 42923, 1, -42319>>, <<42924, 42924, 1, -42315>>, <<42925, 42925, 1, -42305>>,
      <<42926, 42926, 1, -42308>>, <<42928, 42928, 1, -42258>>, <<42929, 42929, 1, -42282>>,
      <<42930, 42930, 1, -42261>>, <<42931, 42931, 1, 928>>, <<42932, 42946, 2, 1>>,
      <<42948, 42948, 1, -48>>, <<42949, 42949, 1, -42307>>, <<42950, 42950, 1, -35384>>,
      <<42951, 42953, 2, 1>>, <<42955, 42955, 1, -42343>>, <<42956, 42970, 2, 1>>,
      <<42972, 42972, 1, -42561>>, <<42997, 42997, 1, 1>>, <<65313, 65338, 1, 32>>,
      <<66560, 66599, 1, 40>>, <<66736, 66771, 1, 40>>, <<66928, 66964, 2, 39>>,
      <<66929, 66937, 2, 39>>, <<66941, 66953, 2, 39>>, <<66957, 66961, 2, 39>>,
      <<66965, 66965, 1, 39>>, <<68736, 68786, 1, 64>>, <<68944, 68965, 1, 32>>,
      <<71840, 71871, 1, 32>>, <<93760, 93791, 1, 32>>, <<93856, 93880, 1, 27>>,
      <<125184, 125217, 1, 34>>
    }

\* core::unicode::Cased, as ranges <<first, last>>
CASED_RANGES ==
    {
      <<65, 90>>, <<97, 122>>, <<170, 170>>, <<181, 181>>, <<186, 186>>, <<192, 214>>,
      <<216, 246>>, <<248, 442>>, <<444, 447>>, <<452, 659>>, <<662, 696>>, <<704, 705>>,
      <<736, 740>>, <<837, 837>>, <<880, 883>>, <<886, 887>>, <<890, 893>>, <<895, 895>>,
      <<902, 902>>, <<904, 906>>, <<908, 908>>, <<910, 929>>, <<931, 1013>>, <<1015, 1153>>,
      <<1162, 1327>>, <<1329, 1366>>, <<1376, 1416>>, <<4256, 4293>>, <<4295, 4295>>,
      <<4301, 4301>>, <<4304, 4346>>, <<4348, 4351>>, <<5024, 5109>>, <<5112, 5117>>,
      <<7296, 7306>>, <<7312, 7354>>, <<7357, 7359>>, <<7424, 7615>>, <<7680, 7957>>,
      <<7960, 7965>>, <<7968, 8005>>, <<8008, 8013>>, <<8016, 8023>>, <<8025, 8025>>,
      <<8027, 8027>>, <<8029, 8029>>, <<8031, 8061>>, <<8064, 8116>>, <<8118, 8124>>,
      <<8126, 8126>>, <<8130, 8132>>, <<8134, 8140>>, <<8144, 8147>>, <<8150, 8155>>,
      <<8160, 8172>>, <<8178, 8180>>, <<8182, 8188>>, <<8305, 8305>>, <<8319, 8319>>,
      <<8336, 8348>>, <<8450, 8450>>, <<8455, 8455>>, <<8458, 8467>>, <<8469, 8469>>,
      <<8473, 8477>>, <<8484, 8484>>, <<8486, 8486>>, <<8488, 8488>>, <<8490, 8493>>,
      <<8495, 8500>>, <<8505, 8505>>, <<8508, 8511>>, <<8517, 8521>>, <<8526, 8526>>,
      <<8544, 8575>>, <<8579, 8580>>, <<9398, 9449>>, <<11264, 11492>>, <<11499, 11502>>,
      <<11506, 11507>>, <<11520, 11557>>, <<11559, 11559>>, <<11565, 11565>>, <<42560, 42605>>,
      <<42624, 42653>>, <<42786, 42887>>, <<42891, 42894>>, <<42896, 42972>>, <<42993, 42998>>,
      <<43000, 43002>>, <<43824, 43866>>, <<43868, 43881>>, <<43888, 43967>>, <<64256, 64262>>,
      <<64275, 64279>>, <<65313, 65338>>, <<65345, 65370>>, <<66560, 66639>>, <<66736, 66771>>,
      <<66776, 66811>>, <<66928, 66938>>, <<66940, 66954>>, <<66956, 66962>>, <<66964, 66965>>,
      <<66967, 66977>>, <<66979, 66993>>, <<66995, 67001>>, <<67003, 67004>>, <<67456, 67456>>,
      <<67459, 67461>>, <<67463, 67504>>, <<67506, 67514>>, <<68736, 68786>>, <<68800, 68850>>,
      <<68944, 68965>>, <<68976, 68997>>, <<71840, 71903>>, <<93760, 93823>>, <<93856, 93880>>,
      <<93883, 93907>>, <<119808, 119892>>, <<119894, 119964>>, <<119966, 119967>>,
      <<119970, 119970>>, <<119973, 119974>>, <<119977, 119980>>, <<119982, 119993>>,
      <<119995, 119995>>, <<119997, 120003>>, <<120005, 120069>>, <<120071, 120074>>,
      <<120077, 120084>>, <<120086, 120092>>, <<120094, 120121>>, <<120123, 120126>>,
      <<120128, 120132>>, <<120134, 120134>>, <<120138, 120144>>, <<120146, 120485>>,
      <<120488, 120512>>, <<120514, 120538>>, <<120540, 120570>>, <<120572, 120596>>,
      <<120598, 120628>>, <<120630, 120654>>, <<120656, 120686>>, <<120688, 120712>>,
      <<120714, 120744>>, <<120746, 120770>>, <<120772, 120779>>, <<122624, 122633>>,
      <<122635, 122654>>, <<122661, 122666>>, <<122928, 122989>>, <<125184, 125251>>,
      <<127280, 127305>>, <<127312, 127337>>, <<127344, 127369>>
    }

\* core::unicode::Case_Ignorable, as ranges <<first, last>>
CASE_IGNORABLE_RANGES ==
    {
      <<39, 39>>, <<46, 46>>, <<58, 58>>, <<94, 94>>, <<96, 96>>, <<168, 168>>, <<173, 173>>,
      <<175, 175>>, <<180, 180>>, <<183, 184>>, <<688, 879>>, <<884, 885>>, <<890, 890>>,
      <<900, 901>>, <<903, 903>>, <<1155, 1161>>, <<1369, 1369>>, <<1375, 1375>>,
      <<1425, 1469>>, <<1471, 1471>>, <<1473, 1474>>, <<1476, 1477>>, <<1479, 1479>>,
      <<1524, 1524>>, <<1536, 1541>>, <<1552, 1562>>, <<1564, 1564>>, <<1600, 1600>>,
      <<1611, 1631>>, <<1648, 1648>>, <<1750, 1757>>, <<1759, 1768>>, <<1770, 1773>>,
      <<1807, 1807>>, <<1809, 1809>>, <<1840, 1866>>, <<1958, 1968>>, <<2027, 2037>>,
      <<2042, 2042>>, <<2045, 2045>>, <<2070, 2093>>, <<2137, 2139>>, <<2184, 2184>>,
      <<2192, 2193>>, <<2199, 2207>>, <<2249, 2306>>, <<2362, 2362>>, <<2364, 2364>>,
      <<2369, 2376>>, <<2381, 2381>>, <<2385, 2391>>, <<2402, 2403>>, <<2417, 2417>>,
      <<2433, 2433>>, <<2492, 2492>>, <<2497, 2500>>, <<2509, 2509>>, <<2530, 2531>>,
      <<2558, 2558>>, <<2561, 2562>>, <<2620, 2620>>, <<2625, 2626>>, <<2631, 2632>>,
      <<2635, 2637>>, <<2641, 2641>>, <<2672, 2673>>, <<2677, 2677>>, <<2689, 2690>>,
      <<2748, 2748>>, <<2753, 2757>>, <<2759, 2760>>, <<2765, 2765>>, <<2786, 2787>>,
      <<2810, 2815>>, <<2817, 2817>>, <<2876, 2876>>, <<2879, 2879>>, <<2881, 2884>>,
      <<2893, 2893>>, <<2901, 2902>>, <<2914, 2915>>, <<2946, 2946>>, <<3008, 3008>>,
      <<3021, 3021>>, <<3072, 3072>>, <<3076, 3076>>, <<3132, 3132>>, <<3134, 3136>>,
      <<3142, 3144>>, <<3146, 3149>>, <<3157, 3158>>, <<3170, 3171>>, <<3201, 3201>>,
      <<3260, 3260>>, <<3263, 3263>>, <<3270, 3270>>, <<3276, 3277>>, <<3298, 3299>>,
      <<3328, 3329>>, <<3387, 3388>>, <<3393, 3396>>, <<3405, 3405>>, <<3426, 3427>>,
      <<3457, 3457>>, <<3530, 3530>>, <<3538, 3540>>, <<3542, 3542>>, <<3633, 3633>>,
      <<3636, 3642>>, <<3654, 3662>>, <<3761, 3761>>, <<3764, 3772>>, <<3782, 3782>>,
      <<3784, 3790>>, <<3864, 3865>>, <<3893, 3893>>, <<3895, 3895>>, <<3897, 3897>>,
      <<3953, 3966>>, <<3968, 3972>>, <<3974, 3975>>, <<3981, 3991>>, <<3993, 4028>>,
      <<4038, 4038>>, <<4141, 4144>>, <<4146, 4151>>, <<4153, 4154>>, <<4157, 4158>>,
      <<4184, 4185>>, <<4190, 4192>>, <<4209, 4212>>, <<4226, 4226>>, <<4229, 4230>>,
      <<4237, 4237>>, <<4253, 4253>>, <<4348, 4348>>, <<4957, 4959>>, <<5906, 5908>>,
      <<5938, 5939>>, <<5970, 5971>>, <<6002, 6003>>, <<6068, 6069>>, <<6071, 6077>>,
      <<6086, 6086>>, <<6089, 6099>>, <<6103, 6103>>, <<6109, 6109>>, <<6155, 6159>>,
      <<6211, 6211>>, <<6277, 6278>>, <<6313, 6313>>, <<6432, 6434>>, <<6439, 6440>>,
      <<6450, 6450>>, <<6457, 6459>>, <<6679, 6680>>, <<6683, 6683>>, <<6742, 6742>>,
      <<6744, 6750>>, <<6752, 6752>>, <<6754, 6754>>, <<6757, 6764>>, <<6771, 6780>>,
      <<6783, 6783>>, <<6823, 6823>>, <<6832, 6877>>, <<6880, 6891>>, <<6912, 6915>>,
      <<6964, 6964>>, <<6966, 6970>>, <<6972, 6972>>, <<6978, 6978>>, <<7019, 7027>>,
      <<7040, 7041>>, <<7074, 7077>>, <<7080, 7081>>, <<7083, 7085>>, <<7142, 7142>>,
      <<7144, 7145>>, <<7149, 7149>>, <<7151, 7153>>, <<7212, 7219>>, <<7222, 7223>>,
      <<7288, 7293>>, <<7376, 7378>>, <<7380, 7392>>, <<7394, 7400>>, <<7405, 7405>>,
      <<7412, 7412>>, <<7416, 7417>>, <<7468, 7530>>, <<7544, 7544>>, <<7579, 7679>>,
      <<8125, 8125>>, <<8127, 8129>>, <<8141, 8143>>, <<8157, 8159>>, <<8173, 8175>>,
      <<8189, 8190>>, <<8203, 8207>>, <<8216, 8217>>, <<8228, 8228>>, <<8231, 8231>>,
      <<8234, 8238>>, <<8288, 8292>>, <<8294, 8303>>, <<8305, 8305>>, <<8319, 8319>>,
      <<8336, 8348>>, <<8400, 8432>>, <<11388, 11389>>, <<11503, 11505>>, <<11631, 11631>>,
      <<11647, 11647>>, <<11744, 11775>>, <<11823, 11823>>, <<12293, 12293>>, <<12330, 12333>>,
      <<12337, 12341>>, <<12347, 12347>>, <<12441, 12446>>, <<12540, 12542>>, <<40981, 40981>>,
      <<42232, 42237>>, <<42508, 42508>>, <<42607, 42610>>, <<42612, 42621>>, <<42623, 42623>>,
      <<42652, 42655>>, <<42736, 42737>>, <<42752, 42785>>, <<42864, 42864>>, <<42888, 42890>>,
      <<42993, 42996>>, <<43000, 43001>>, <<43010, 43010>>, <<43014, 43014>>, <<43019, 43019>>,
      <<43045, 43046>>, <<43052, 43052>>, <<43204, 43205>>, <<43232, 43249>>, <<43263, 43263>>,
      <<43302, 43309>>, <<43335, 43345>>, <<43392, 43394>>, <<43443, 43443>>, <<43446, 43449>>,
      <<43452, 43453>>, <<43471, 43471>>, <<43493, 43494>>, <<43561, 43566>>, <<43569, 43570>>,
      <<43573, 43574>>, <<43587, 43587>>, <<43596, 43596>>, <<43632, 43632>>, <<43644, 43644>>,
      <<43696, 43696>>, <<43698, 43700>>, <<43703, 43704>>, <<43710, 43711>>, <<43713, 43713>>,
      <<43741, 43741>>, <<43756, 43757>>, <<43763, 43764>>, <<43766, 43766>>, <<43867, 43871>>,
      <<43881, 43883>>, <<44005, 44005>>, <<44008, 44008>>, <<44013, 44013>>, <<64286, 64286>>,
      <<64434, 64450>>, <<65024, 65039>>, <<65043, 65043>>, <<65056, 65071>>, <<65106, 65106>>,
      <<65109, 65109>>, <<65279, 65279>>, <<65287, 65287>>, <<65294, 65294>>, <<65306, 65306>>,
      <<65342, 65342>>, <<65344, 65344>>, <<65392, 65392>>, <<65438, 65439>>, <<65507, 65507>>,
      <<65529, 65531>>, <<66045, 66045>>, <<66272, 66272>>, <<66422, 66426>>, <<67456, 67461>>,
      <<67463, 67504>>, <<67506, 67514>>, <<68097, 68099>>, <<68101, 68102>>, <<68108, 68111>>,
      <<68152, 68154>>, <<68159, 68159>>, <<68325, 68326>>, <<68900, 68903>>, <<68942, 68942>>,
      <<68969, 68973>>, <<68975, 68975>>, <<69291, 69292>>, <<69317, 69317>>, <<69370, 69375>>,
      <<69446, 69456>>, <<69506, 69509>>, <<69633, 69633>>, <<69688, 69702>>, <<69744, 69744>>,
      <<69747, 69748>>, <<69759, 69761>>, <<69811, 69814>>, <<69817, 69818>>, <<69821, 69821>>,
      <<69826, 69826>>, <<69837, 69837>>, <<69888, 69890>>, <<69927, 69931>>, <<69933, 69940>>,
      <<70003, 70003>>, <<70016, 70017>>, <<70070, 70078>>, <<70089, 70092>>, <<70095, 70095>>,
      <<70191, 70193>>, <<70196, 70196>>, <<70198, 70199>>, <<70206, 70206>>, <<70209, 70209>>,
      <<70367, 70367>>, <<70371, 70378>>, <<70400, 70401>>, <<70459, 70460>>, <<70464, 70464>>,
      <<70502, 70508>>, <<70512, 70516>>, <<70587, 70592>>, <<70606, 70606>>, <<70608, 70608>>,
      <<70610, 70610>>, <<70625, 70626>>, <<70712, 70719>>, <<70722, 70724>>, <<70726, 70726>>,
      <<70750, 70750>>, <<70835, 70840>>, <<70842, 70842>>, <<70847, 70848>>, <<70850, 70851>>,
      <<71090, 71093>>, <<71100, 71101>>, <<71103, 71104>>, <<71132, 71133>>, <<71219, 71226>>,
      <<71229, 71229>>, <<71231, 71232>>, <<71339, 71339>>, <<71341, 71341>>, <<71344, 71349>>,
      <<71351, 71351>>, <<71453, 71453>>, <<71455, 71455>>, <<71458, 71461>>, <<71463, 71467>>,
      <<71727, 71735>>, <<71737, 71738>>, <<71995, 71996>>, <<71998, 71998>>, <<72003, 72003>>,
      <<72148, 72151>>, <<72154, 72155>>, <<72160, 72160>>, <<72193, 72202>>, <<72243, 72248>>,
      <<72251, 72254>>, <<72263, 72263>>, <<72273, 72278>>, <<72281, 72283>>, <<72330, 72342>>,
      <<72344, 72345>>, <<72544, 72544>>, <<72546, 72548>>, <<72550, 72550>>, <<72752, 72758>>,
      <<72760, 72765>>, <<72767, 72767>>, <<72850, 72871>>, <<72874, 72880>>, <<72882, 72883>>,
      <<72885, 72886>>, <<73009, 73014>>, <<73018, 73018>>, <<73020, 73021>>, <<73023, 73029>>,
      <<73031, 73031>>, <<73104, 73105>>, <<73109, 73109>>, <<73111, 73111>>, <<73177, 73177>>,
      <<73459, 73460>>, <<73472, 73473>>, <<73526, 73530>>, <<73536, 73536>>, <<73538, 73538>>,
      <<73562, 73562>>, <<78896, 78912>>, <<78919, 78933>>, <<90398, 90409>>, <<90413, 90415>>,
      <<92912, 92916>>, <<92976, 92982>>, <<92992, 92995>>, <<93504, 93506>>, <<93547, 93548>>,
      <<94031, 94031>>, <<94095, 94111>>, <<94176, 94177>>, <<94179, 94180>>, <<94194, 94195>>,
      <<110576, 110579>>, <<110581, 110587>>, <<110589, 110590>>, <<113821, 113822>>,
      <<113824, 113827>>, <<118528, 118573>>, <<118576, 118598>>, <<119143, 119145>>,
      <<119155, 119170>>, <<119173, 119179>>, <<119210, 119213>>, <<119362, 119364>>,
      <<121344, 121398>>, <<121403, 121452>>, <<121461, 121461>>, <<121476, 121476>>,
      <<121499, 121503>>, <<121505, 121519>>, <<122880, 122886>>, <<122888, 122904>>,
      <<122907, 122913>>, <<122915, 122916>>, <<122918, 122922>>, <<122928, 122989>>,
      <<123023, 123023>>, <<123184, 123197>>, <<123566, 123566>>, <<123628, 123631>>,
      <<124139, 124143>>, <<124398, 124399>>, <<124643, 124643>>, <<124646, 124646>>,
      <<124654, 124655>>, <<124661, 124661>>, <<124671, 124671>>, <<125136, 125142>>,
      <<125252, 125259>>, <<127995, 127999>>, <<917505, 917505>>, <<917536, 917631>>,
      <<917760, 917999>>
    }

Cased(c) == \E r \in CASED_RANGES : r[1] <= c /\ c <= r[2]

Case_Ignorable(c) == \E r \in CASE_IGNORABLE_RANGES : r[1] <= c /\ c <= r[2]

\* conversions::to_lower: the lower-case mapping of one char, of one char but
\* for U+0130, which maps to U+0069 U+0307
to_lower(c) ==
    IF c = 304 THEN <<105, 775>>
    ELSE IF \E r \in LOWERCASE_TABLE : c \in r[1]..r[2] /\ (c - r[1]) % r[3] = 0
    THEN LET r == CHOOSE r \in LOWERCASE_TABLE : c \in r[1]..r[2] /\ (c - r[1]) % r[3] = 0
         IN  <<c + r[4]>>
    ELSE <<c>>

\* Iterator::rev collected
rev(items) == [k \in 1..Len(items) |-> items[Len(items) + 1 - k]]

\* the first char that is not Case_Ignorable exists and is Cased
case_ignorable_then_cased(chars) ==
    LET rest == {k \in 1..Len(chars) : ~Case_Ignorable(chars[k])} IN
    /\ rest # {}
    /\ Cased(chars[CHOOSE k \in rest : \A j \in rest : k <= j])

\* the lower case of U+03A3 at position i: U+03C2 at the end of a word, U+03C3
\* elsewhere
map_uppercase_sigma(from, i) ==
    LET is_word_final ==
            /\ case_ignorable_then_cased(rev(SubSeq(from, 1, i - 1)))
            /\ ~case_ignorable_then_cased(SubSeq(from, i + 1, Len(from)))
    IN  IF is_word_final THEN <<962>> ELSE <<963>>

to_lowercase_unchanged(s) == s

\* str::to_lowercase
to_lowercase(s) ==
    join([i \in 1..Len(s) |->
             IF s[i] = 931 THEN map_uppercase_sigma(s, i) ELSE to_lower(s[i])],
         <<>>)

string_to_mod(s) ==
    LET lower == to_lowercase(s) IN
    CASE lower = str(<<"c", "t", "r", "l">>) -> Some("Ctrl")
      [] lower = str(<<"a", "l", "t">>) -> Some("Alt")
      [] OTHER -> None


-----------------------------------------------------------------------------
(* Bounds and inputs *)

\* pipe messages delivered in one run
MaxPipes == 2

\* pipe messages delivered in one run in which probes may stay unanswered
MaxLostPipes == 3

\* RunCommandResult events delivered in one run
MaxCompletions == 2

PipeMessage(name, payload) == [name |-> name, payload |-> payload]

\* the pipe messages of the runs: every recognized name and every recognized
\* payload occurs, beside messages parse_command turns down
PipeMessages ==
    { PipeMessage("move_focus", Some(p)) : p \in {"left", "right", "up", "down"} }
        \cup { PipeMessage("move_focus_or_tab", Some("right")),
               PipeMessage("resize", Some("down")),
               PipeMessage("resize", Some("left")) }
        \cup { PipeMessage("jump", Some("left")),
               PipeMessage("move_focus", None),
               PipeMessage("resize", Some("Left")) }

str_ctrl == str(<<"c", "t", "r", "l">>)

str_Alt == str(<<"A", "l", "t">>)

str_shift == str(<<"s", "h", "i", "f", "t">>)

ConfigValues == {None, Some(str_ctrl), Some(str_Alt), Some(str_shift)}

\* BTreeMap<String, String>, by what get("move_mod") and get("resize_mod") return
Configurations == [move_mod : ConfigValues, resize_mod : ConfigValues]

\* the stdout of a RunCommandResult: bytes that are the text of a table, or
\* bytes that are no text
TextPayload(table) == [utf8 |-> TRUE, table |-> table, text |-> render(table)]

HostPayloads == { TextPayload(t) : t \in HostTables } \cup { [utf8 |-> FALSE] }

\* String::from_utf8
from_utf8_lossy(stdout) == IF stdout.utf8 THEN Some(stdout.text) ELSE Some(<<>>)

from_utf8(stdout) == IF stdout.utf8 THEN Some(stdout.text) ELSE None

-----------------------------------------------------------------------------
(* The command queue *)

\* A queue entry: the Command, and as history the number of the push that
\* queued it, the completions handled and the entries queued before it then.
Entry(command, id, at, ahead) == [command |-> command, id |-> id, at |-> at, ahead |-> ahead]

\* VecDeque::push_back
push_back_twice(queue, entry) == Append(Append(queue, entry), entry)

push_back(queue, entry) == Append(queue, entry)

pop_back(queue) ==
    IF queue = <<>> THEN None
    ELSE Some([value |-> queue[Len(queue)], rest |-> SubSeq(queue, 1, Len(queue) - 1)])

pop_front_clear(queue) ==
    IF queue = <<>> THEN None ELSE Some([value |-> Head(queue), rest |-> <<>>])

\* VecDeque::pop_front: the head and the queue without it, or None
pop_front_peek(queue) ==
    IF queue = <<>> THEN None ELSE Some([value |-> Head(queue), rest |-> queue])

pop_front(queue) ==
    IF queue = <<>> THEN None ELSE Some([value |-> Head(queue), rest |-> Tail(queue)])

is_empty_unchecked(queue) == FALSE

\* VecDeque::is_empty
is_empty(queue) == queue = <<>>

-----------------------------------------------------------------------------
(* The router *)

Call(fn, chars, direction) == [fn |-> fn, chars |-> chars, direction |-> direction]

NoEffects == [popped |-> <<>>, calls |-> <<>>, run_commands |-> 0]

current_pane_is_vim(term_command) ==
    /\ term_command # None
    /\ term_command[1] = str_nvim \/ term_command[1] = str_vim

\* the native action of a command
native_action(command) ==
    CASE command.kind = "MoveFocus" ->
             Call("move_focus", None, Some(command.direction))
      [] command.kind = "MoveFocusOrTab" ->
             Call("move_focus_or_tab", None, Some(command.direction))
      [] command.kind = "Resize" ->
             Call("resize_focused_pane_with_direction(Increase)", None,
                  Some(command.direction))

execute_command_no_return(term_command, mv, rs, command) ==
    (IF current_pane_is_vim(term_command)
     THEN << Call("write_chars", Some(command_to_keybind(mv, rs, command)), None) >>
     ELSE <<>>) \o << native_action(command) >>

\* the external calls execute_command makes, in order
execute_command(term_command, mv, rs, command) ==
    IF current_pane_is_vim(term_command)
    THEN << Call("write_chars", Some(command_to_keybind(mv, rs, command)), None) >>
    ELSE << native_action(command) >>

handle_command_one_probe(command) ==
    /\ command_queue' = push_back(command_queue,
                                  Entry(command, enqueues + 1, completions,
                                        Len(command_queue)))
    /\ probes' = IF command_queue = <<>> THEN Append(probes, "outstanding") ELSE probes
    /\ enqueues' = enqueues + 1
    /\ effects' = [popped |-> <<>>, calls |-> <<>>,
                   run_commands |-> IF command_queue = <<>> THEN 1 ELSE 0]

handle_command_two_probes(command) ==
    /\ command_queue' = push_back(command_queue,
                                  Entry(command, enqueues + 1, completions, Len(command_queue)))
    /\ probes' = Append(Append(probes, "outstanding"), "outstanding")
    /\ enqueues' = enqueues + 1
    /\ effects' = [popped |-> <<>>, calls |-> <<>>, run_commands |-> 2]

handle_command(command) ==
    /\ command_queue' = push_back(command_queue,
                                  Entry(command, enqueues + 1, completions,
                                        Len(command_queue)))
    /\ probes' = Append(probes, "outstanding")
    /\ enqueues' = enqueues + 1
    /\ effects' = [popped |-> <<>>, calls |-> <<>>, run_commands |-> 1]

\* the value of each modifier after parse_configuration, and whether an
\* expect() panicked on the way
parse_configuration(mv, rs, configuration) ==
    LET m == IF configuration.move_mod = None THEN Some("Ctrl")
             ELSE string_to_mod(configuration.move_mod[1])
        r == IF configuration.resize_mod = None THEN Some("Alt")
             ELSE string_to_mod(configuration.resize_mod[1])
    IN  IF m = None THEN [panicked |-> TRUE, move_mod |-> mv, resize_mod |-> rs]
        ELSE IF r = None THEN [panicked |-> TRUE, move_mod |-> m[1], resize_mod |-> rs]
        ELSE [panicked |-> FALSE, move_mod |-> m[1], resize_mod |-> r[1]]

Init ==
    /\ pc = "load"
    /\ permissions_granted = FALSE
    /\ current_term_command = None
    /\ command_queue = <<>>
    /\ move_mod = "Ctrl"
    /\ resize_mod = "Alt"
    /\ hidden = FALSE
    /\ permission_pending = FALSE
    /\ probes = <<>>
    /\ event = [type |-> "none"]
    /\ effects = NoEffects
    /\ enqueues = 0
    /\ dequeues = 0
    /\ completions = 0
    /\ ignored = 0

load(configuration) ==
    /\ pc = "load"
    /\ event' = [type |-> "load", configuration |-> configuration]
    /\ effects' = NoEffects
    /\ LET parsed == parse_configuration(move_mod, resize_mod, configuration) IN
        /\ move_mod' = parsed.move_mod
        /\ resize_mod' = parsed.resize_mod
        /\ IF parsed.panicked
           THEN /\ pc' = "aborted"
                /\ UNCHANGED <<permission_pending, hidden>>
           ELSE /\ pc' = "running"
                /\ permission_pending' = TRUE
                /\ hidden' = (hidden \/ permissions_granted)
    /\ UNCHANGED <<permissions_granted, current_term_command, command_queue, probes,
                   enqueues, dequeues, completions, ignored>>

pipe(pipe_message) ==
    /\ pc = "running"
    /\ event' = [type |-> "pipe", message |-> pipe_message]
    /\ LET command == parse_command(pipe_message) IN
        IF command # None
        THEN /\ handle_command(command[1])
             /\ UNCHANGED ignored
        ELSE /\ ignored' = ignored + 1
             /\ effects' = NoEffects
             /\ UNCHANGED <<command_queue, probes, enqueues>>
    /\ UNCHANGED <<pc, permissions_granted, current_term_command, move_mod, resize_mod,
                   hidden, permission_pending, dequeues, completions>>

update_RunCommandResult_dispatch_first(probe, stdout) ==
    /\ pc = "running"
    /\ probe = 0 \/ (probe \in DOMAIN probes /\ probes[probe] = "outstanding")
    /\ event' = [type |-> "RunCommandResult", probe |-> probe, stdout |-> stdout]
    /\ probes' = IF probe = 0 THEN probes ELSE [probes EXCEPT ![probe] = "resolved"]
    /\ LET text == from_utf8(stdout) IN
        IF text = None
        THEN \* unwrap() of Err panics
             /\ pc' = "aborted"
             /\ effects' = NoEffects
             /\ UNCHANGED <<current_term_command, command_queue, dequeues, completions>>
        ELSE /\ completions' = completions + 1
             /\ current_term_command' = term_command_from_client_list(text[1])
             /\ IF ~is_empty(command_queue)
                THEN LET popped == pop_front(command_queue) IN
                     IF popped = None
                     THEN \* unwrap() of None panics
                          /\ pc' = "aborted"
                          /\ effects' = NoEffects
                          /\ UNCHANGED <<command_queue, dequeues>>
                     ELSE /\ pc' = pc
                          /\ command_queue' = popped[1].rest
                          /\ dequeues' = dequeues + 1
                          /\ effects' = [popped |-> <<popped[1].value>>,
                                         calls |-> execute_command(current_term_command,
                                                                  move_mod, resize_mod,
                                                                  popped[1].value.command),
                                         run_commands |-> 0]
                ELSE /\ pc' = pc
                     /\ effects' = NoEffects
                     /\ UNCHANGED <<command_queue, dequeues>>
    /\ UNCHANGED <<permissions_granted, move_mod, resize_mod, hidden, permission_pending,
                   enqueues, ignored>>

\* update(Event::RunCommandResult(_, stdout, _, _)); probe is the run_command
\* call the host answers, 0 when the event answers none of them
update_RunCommandResult(probe, stdout) ==
    /\ pc = "running"
    /\ probe = 0 \/ (probe \in DOMAIN probes /\ probes[probe] = "outstanding")
    /\ event' = [type |-> "RunCommandResult", probe |-> probe, stdout |-> stdout]
    /\ probes' = IF probe = 0 THEN probes ELSE [probes EXCEPT ![probe] = "resolved"]
    /\ LET text == from_utf8(stdout) IN
        IF text = None
        THEN \* unwrap() of Err panics
             /\ pc' = "aborted"
             /\ effects' = NoEffects
             /\ UNCHANGED <<current_term_command, command_queue, dequeues, completions>>
        ELSE /\ completions' = completions + 1
             /\ current_term_command' = term_command_from_client_list(text[1])
             /\ IF ~is_empty(command_queue)
                THEN LET popped == pop_front(command_queue) IN
                     IF popped = None
                     THEN \* unwrap() of None panics
                          /\ pc' = "aborted"
                          /\ effects' = NoEffects
                          /\ UNCHANGED <<command_queue, dequeues>>
                     ELSE /\ pc' = pc
                          /\ command_queue' = popped[1].rest
                          /\ dequeues' = dequeues + 1
                          /\ effects' = [popped |-> <<popped[1].value>>,
                                         calls |-> execute_command(current_term_command',
                                                                   move_mod, resize_mod,
                                                                   popped[1].value.command),
                                         run_commands |-> 0]
                ELSE /\ pc' = pc
                     /\ effects' = NoEffects
                     /\ UNCHANGED <<command_queue, dequeues>>
    /\ UNCHANGED <<permissions_granted, move_mod, resize_mod, hidden, permission_pending,
                   enqueues, ignored>>

update_PermissionRequestResult_reset(permission) ==
    /\ pc = "running"
    /\ permission_pending
    /\ permission_pending' = FALSE
    /\ event' = [type |-> "PermissionRequestResult", permission |-> permission]
    /\ effects' = NoEffects
    /\ permissions_granted' = (permission = "Granted")
    /\ hidden' = (hidden \/ permissions_granted')
    /\ current_term_command' = IF permission = "Granted" THEN current_term_command ELSE None
    /\ UNCHANGED <<pc, command_queue, move_mod, resize_mod, probes, enqueues, dequeues,
                   completions, ignored>>

\* update(Event::PermissionRequestResult(permission))
update_PermissionRequestResult(permission) ==
    /\ pc = "running"
    /\ permission_pending
    /\ permission_pending' = FALSE
    /\ event' = [type |-> "PermissionRequestResult", permission |-> permission]
    /\ effects' = NoEffects
    /\ permissions_granted' = (permission = "Granted")
    /\ hidden' = (hidden \/ permissions_granted')
    /\ UNCHANGED <<pc, current_term_command, command_queue, move_mod, resize_mod, probes,
                   enqueues, dequeues, completions, ignored>>

Load == \E configuration \in Configurations : load(configuration)

Pipe ==
    /\ enqueues + ignored < MaxPipes
    /\ \E pipe_message \in PipeMessages : pipe(pipe_message)

\* the handler ignores the event's context: it cannot tell which run_command
\* call, if any, a result answers
RunCommandResult ==
    /\ completions < MaxCompletions
    /\ \E stdout \in HostPayloads : update_RunCommandResult(0, stdout)

PermissionRequestResult ==
    \E permission \in {"Granted", "Denied"} : update_PermissionRequestResult(permission)

\* load subscribes to PermissionRequestResult and RunCommandResult only: the
\* host delivers no other event to update
Next == Load \/ Pipe \/ RunCommandResult \/ PermissionRequestResult

Spec == Init /\ [][Next]_vars

-----------------------------------------------------------------------------
(* The router, loaded with an empty configuration, under a host that       *)
(* delivers a RunCommandResult only as the answer to a run_command call,   *)
(* at most once per call and as text, and that may never answer a call.    *)

\* load with an empty configuration
LoadDefaults == load([move_mod |-> None, resize_mod |-> None])

HostTextPayloads == { TextPayload(t) : t \in HostTables }

\* the host answers an outstanding run_command call
ProbeCompletion ==
    /\ completions < MaxCompletions
    /\ \E probe \in DOMAIN probes, stdout \in HostTextPayloads :
          update_RunCommandResult(probe, stdout)

\* the command of a run_command call hangs: the call will never be answered
lose_probe(probe) ==
    /\ pc = "running"
    /\ probes[probe] = "outstanding"
    /\ probes' = [probes EXCEPT ![probe] = "lost"]
    /\ UNCHANGED <<pc, permissions_granted, current_term_command, command_queue, move_mod,
                   resize_mod, hidden, permission_pending, event, effects, enqueues,
                   dequeues, completions, ignored>>

ProbeLost == \E probe \in DOMAIN probes : lose_probe(probe)

NextHost == LoadDefaults \/ Pipe \/ ProbeCompletion \/ PermissionRequestResult \/ ProbeLost

SpecHost == Init /\ [][NextHost]_vars

-----------------------------------------------------------------------------
(* The same host over longer runs: up to MaxLostPipes triggers, each probe *)
(* answered at most once, as text, or never.                               *)

\* two commands, and a message parse_command turns down
LostPipeMessages ==
    { PipeMessage("move_focus", Some("left")),
      PipeMessage("resize", Some("down")),
      PipeMessage("jump", Some("left")) }

PipeLost ==
    /\ enqueues + ignored < MaxLostPipes
    /\ \E pipe_message \in LostPipeMessages : pipe(pipe_message)

ProbeCompletionLost ==
    /\ completions < MaxLostPipes
    /\ \E probe \in DOMAIN probes, stdout \in HostTextPayloads :
          update_RunCommandResult(probe, stdout)

NextLost ==
    LoadDefaults \/ PipeLost \/ ProbeCompletionLost \/ PermissionRequestResult \/ ProbeLost

SpecLost == Init /\ [][NextLost]_vars


-----------------------------------------------------------------------------
(* The classifier on its own: load with an empty configuration, then one   *)
(* RunCommandResult drawn from a bounded set of probe outputs.             *)

seg_file == str(<<"a", ".", "t", "x", "t">>)

ClPanes == {col_terminal_0, col_terminal, col_term, col_plugin_1}

ClCommands ==
    { col_NA,
      <<str_vim>>,
      <<str_nvim>>,
      <<seg_vi>>,
      <<<<>>, seg_usr, seg_bin, str_vim>>,
      <<<<>>, seg_usr, seg_bin, str_nvim>>,
      <<<<>>, seg_bin, seg_bash>>,
      <<<<>>, seg_usr, seg_bin, <<>>>>,
      <<seg_N, seg_A, str_vim>>,
      <<<<>>, <<>>>> }

\* a first data line of zero to four columns
ClRows ==
    { <<>>, <<col_client>> }
        \cup { <<col_client, p>> : p \in ClPanes }
        \cup { <<col_client, p, c>> : p \in ClPanes, c \in ClCommands }
        \cup { <<col_client, p, c, <<seg_file>> >> : p \in ClPanes, c \in ClCommands }

\* the data lines after the first
ClLaterRows ==
    { <<>>,
      << row_of(col_terminal_0, <<<<>>, seg_usr, seg_bin, str_vim>>) >>,
      << <<col_client>>, row_of(col_plugin_1, col_NA) >> }

ClHeaders == { header_row, row_of(col_terminal_0, <<str_nvim>>) }

ClRowLists ==
    { <<>> }
        \cup { <<h>> : h \in ClHeaders }
        \cup { <<h, r>> \o later : h \in ClHeaders, r \in ClRows, later \in ClLaterRows }

ClTables ==
    [rows : ClRowLists,
     sep : { str(<<" ">>), str(<<" ", " ">>), str(<<"\t">>), str(<<"\f">>), <<11>>,
             <<12288, 160>> },
     newline : BOOLEAN]

ClPayloads == { TextPayload(t) : t \in ClTables }

\* the first RunCommandResult, with any of the probe outputs
Classify ==
    /\ completions = 0
    /\ \E stdout \in ClPayloads : update_RunCommandResult(0, stdout)

NextCl == LoadDefaults \/ Classify

SpecCl == Init /\ [][NextCl]_vars

-----------------------------------------------------------------------------
(* Claims about the classifier *)

\* the text t begins with "terminal"
BeginsWithTerminal(t) ==
    \E k \in 0..Len(t) : t = str_terminal \o SubSeq(t, Len(t) - k + 1, Len(t))

\* What the classifier is to return for a table, read off its rows and columns:
\* absent without a line after the header, with fewer than 3 columns in the
\* first data line, with a column 2 that does not begin with "terminal", with a
\* column 3 that is N/A; otherwise the final segment of column 3.
ExpectedOccupant(table) ==
    IF Len(table.rows) < 2 THEN None
    ELSE LET row == table.rows[2] IN
         IF Len(row) < 3 THEN None
         ELSE IF ~BeginsWithTerminal(render_column(row[2])) THEN None
         ELSE IF row[3] = col_NA THEN None
         ELSE Some(row[3][Len(row[3])])

Classified == event.type = "RunCommandResult" /\ event.stdout.utf8

\* C9: on every probe output the classifier does not fail and returns what
\* ExpectedOccupant reads off the first data line: absent in the four cases,
\* the final '/'-separated segment of column 3 otherwise, whatever the data
\* lines after the first are.
C9_ClassifierTotal ==
    Classified =>
        /\ pc = "running"
        /\ current_term_command = ExpectedOccupant(event.stdout.table)

\* reached: a table of two data lines whose first names /bin/bash in a
\* terminal pane and whose second names /usr/bin/vim, classified as bash
C9_Witness ==
    /\ Classified
    /\ Len(event.stdout.table.rows) = 3
    /\ event.stdout.table.rows[2] = row_of(col_terminal_0, <<<<>>, seg_bin, seg_bash>>)
    /\ event.stdout.table.rows[3] = row_of(col_terminal_0, <<<<>>, seg_usr, seg_bin, str_vim>>)
    /\ current_term_command = Some(seg_bash)

\* the first data line of the table has a column 3 that is a path ending in /name
CommandEndsIn(table, name) ==
    /\ Len(table.rows) >= 2
    /\ Len(table.rows[2]) >= 3
    /\ Len(table.rows[2][3]) >= 2
    /\ table.rows[2][3][Len(table.rows[2][3])] = name

\* C10 as claimed: whenever column 3 of the first data line is a path ending in
\* /nvim or /vim, the classifier returns "nvim" or "vim".
C10_Original ==
    Classified =>
        /\ CommandEndsIn(event.stdout.table, str_nvim) => current_term_command = Some(str_nvim)
        /\ CommandEndsIn(event.stdout.table, str_vim) => current_term_command = Some(str_vim)

InTerminalPane(table) == BeginsWithTerminal(render_column(table.rows[2][2]))

\* C10 (amended): whenever column 3 of the first data line is a path ending in
\* /nvim or /vim and column 2 of that line begins with "terminal", the
\* classifier returns "nvim" or "vim"; when column 2 does not begin with
\* "terminal" it returns absent.
C10_VimPathInTerminalPane ==
    Classified =>
        /\ \A name \in {str_nvim, str_vim} :
              CommandEndsIn(event.stdout.table, name) =>
                  current_term_command =
                      IF InTerminalPane(event.stdout.table) THEN Some(name) ELSE None

\* reached: /usr/bin/nvim in pane terminal_0, classified as nvim
C10_Witness ==
    /\ Classified
    /\ CommandEndsIn(event.stdout.table, str_nvim)
    /\ event.stdout.table.rows[2][2] = col_terminal_0
    /\ event.stdout.table.rows[2][3] = <<<<>>, seg_usr, seg_bin, str_nvim>>
    /\ current_term_command = Some(str_nvim)


-----------------------------------------------------------------------------
(* Claims about the router *)

\* the step handles a pipe message
PipeStep == event'.type = "pipe" /\ enqueues' + ignored' = enqueues + ignored + 1

\* the step handles a RunCommandResult whose stdout is text
CompletionStep == completions' = completions + 1

\* the last event removed an entry from the queue
Dequeued == effects.popped # <<>>

\* the native action the spec names for each kind of command
NativeActionOf(kind) ==
    CASE kind = "MoveFocus" -> "move_focus"
      [] kind = "MoveFocusOrTab" -> "move_focus_or_tab"
      [] kind = "Resize" -> "resize_focused_pane_with_direction(Increase)"

\* C1: commands leave the queue in the order they entered it: the entries
\* pending are the pushes dequeues+1, dequeues+2, ... in this order, and the
\* i-th removal takes the entry of the i-th push and dispatches one call for
\* that entry's command, of its kind and direction.
C1_Fifo ==
    /\ \A i \in 1..Len(command_queue) : command_queue[i].id = dequeues + i
    /\ Dequeued =>
          /\ effects.popped[1].id = dequeues
          /\ Len(effects.calls) = 1
          /\ \/ effects.calls[1] = Call("write_chars",
                                        Some(command_to_keybind(move_mod, resize_mod,
                                                                effects.popped[1].command)),
                                        None)
             \/ effects.calls[1] = Call(NativeActionOf(effects.popped[1].command.kind), None,
                                        Some(effects.popped[1].command.direction))

\* reached: two triggers, then two completions; the second completion has just
\* dispatched the second command
C1_Witness ==
    /\ Dequeued
    /\ effects.popped[1].id = 2
    /\ effects.popped[1].at = 0
    /\ effects.popped[1].ahead = 1
    /\ completions = 2
    /\ dequeues = 2

\* C2: a completion that dequeues a command makes exactly one external call:
\* with the occupant exactly "vim" or "nvim", write_chars with the keybinding
\* of the command, and no native action; otherwise the native action of the
\* command's kind with its direction, and no write_chars. Resize(Down) under
\* "vim" with the resize modifier Ctrl injects the one character 0x0A.
C2_OneExternalAction ==
    Dequeued =>
        LET command == effects.popped[1].command IN
        /\ Len(effects.calls) = 1
        /\ effects.run_commands = 0
        /\ IF current_term_command \in {Some(str_vim), Some(str_nvim)}
           THEN effects.calls[1] =
                    Call("write_chars",
                         Some(command_to_keybind(move_mod, resize_mod, command)), None)
           ELSE effects.calls[1] =
                    Call(NativeActionOf(command.kind), None, Some(command.direction))
        /\ (/\ command = Command("Resize", "Down")
            /\ current_term_command = Some(str_vim)
            /\ resize_mod = "Ctrl") => effects.calls = << Call("write_chars", Some(<<10>>), None) >>

\* reached: Resize(Down) dequeued under "vim" with the resize modifier Ctrl
C2_Witness ==
    /\ Dequeued
    /\ effects.popped[1].command = Command("Resize", "Down")
    /\ current_term_command = Some(str_vim)
    /\ resize_mod = "Ctrl"
    /\ effects.calls = << Call("write_chars", Some(<<10>>), None) >>

\* C3: a completion removes the head of a non-empty queue and nothing else:
\* the queue after it is the queue before it without its head.
C3_OnePerCompletion ==
    [][CompletionStep =>
          /\ command_queue' = IF command_queue = <<>> THEN <<>> ELSE Tail(command_queue)
          /\ effects'.popped = IF command_queue = <<>> THEN <<>> ELSE <<Head(command_queue)>>
          /\ dequeues' = IF command_queue = <<>> THEN dequeues ELSE dequeues + 1]_vars

\* reached: a completion has removed one command and left another queued
C3_Witness ==
    /\ event.type = "RunCommandResult"
    /\ Dequeued
    /\ effects.popped[1].id = 1
    /\ Len(command_queue) = 1
    /\ command_queue[1].at = 0

RecognizedNames == {"move_focus", "move_focus_or_tab", "resize"}

RecognizedPayloads == {"left", "right", "up", "down"}

Recognized(message) ==
    /\ message.name \in RecognizedNames
    /\ message.payload # None
    /\ message.payload[1] \in RecognizedPayloads

\* the Command the spec names for a recognized message
CommandOf(message) ==
    Command(CASE message.name = "move_focus" -> "MoveFocus"
              [] message.name = "move_focus_or_tab" -> "MoveFocusOrTab"
              [] message.name = "resize" -> "Resize",
            CASE message.payload[1] = "left" -> "Left"
              [] message.payload[1] = "right" -> "Right"
              [] message.payload[1] = "up" -> "Up"
              [] message.payload[1] = "down" -> "Down")

\* C4: a recognized trigger appends its one Command to the tail of the queue
\* and makes one run_command call, whatever is queued or outstanding; it pops
\* nothing and makes no other external call.
C4_TriggerEnqueuesAndProbes ==
    [][(PipeStep /\ Recognized(event'.message)) =>
          /\ Len(command_queue') = Len(command_queue) + 1
          /\ SubSeq(command_queue', 1, Len(command_queue)) = command_queue
          /\ command_queue'[Len(command_queue')].command = CommandOf(event'.message)
          /\ Len(probes') = Len(probes) + 1
          /\ SubSeq(probes', 1, Len(probes)) = probes
          /\ probes'[Len(probes')] = "outstanding"
          /\ effects' = [popped |-> <<>>, calls |-> <<>>, run_commands |-> 1]
          /\ UNCHANGED <<pc, current_term_command>>]_vars

\* reached: a recognized trigger handled while a command was queued and a
\* probe outstanding
C4_Witness ==
    /\ event.type = "pipe"
    /\ Recognized(event.message)
    /\ Len(command_queue) = 2
    /\ command_queue[2].ahead = 1
    /\ Len(probes) = 2
    /\ effects.run_commands = 1

\* C5: a trigger that is not recognized changes nothing: not the queue, not the
\* occupant, no run_command call, no external call, no panic.
C5_UnrecognizedIgnored ==
    [][(PipeStep /\ ~Recognized(event'.message)) =>
          /\ effects' = NoEffects
          /\ UNCHANGED <<pc, permissions_granted, current_term_command, command_queue,
                         move_mod, resize_mod, hidden, probes, enqueues, dequeues>>]_vars

\* reached: resize with payload "Left" handled while a command was queued
C5_Witness ==
    /\ event.type = "pipe"
    /\ event.message = PipeMessage("resize", Some("Left"))
    /\ ignored = 1
    /\ Len(command_queue) = 1
    /\ Len(probes) = 1
    /\ pc = "running"

\* C6: a completion that finds the queue empty makes no external call and no
\* run_command call, leaves the queue empty and changes no field of the router
\* but current_term_command.
C6_EmptyQueueCompletion ==
    [][(CompletionStep /\ command_queue = <<>>) =>
          /\ command_queue' = <<>>
          /\ effects' = NoEffects
          /\ Len(probes') = Len(probes)
          /\ UNCHANGED <<pc, permissions_granted, move_mod, resize_mod, hidden,
                         enqueues, dequeues>>]_vars

\* reached: a completion reporting vim handled with nothing ever queued
C6_Witness ==
    /\ event.type = "RunCommandResult"
    /\ completions = 1
    /\ enqueues = 0
    /\ command_queue = <<>>
    /\ effects = NoEffects
    /\ current_term_command = Some(str_vim)
    /\ pc = "running"

\* C7 as claimed: every removal happens on the first completion handled after
\* the command's enqueue.
C7_Original == Dequeued => completions = effects.popped[1].at + 1

\* C7 (amended): no entry is removed twice, and an entry queued behind k others
\* is removed by the (k+1)-th completion handled after its enqueue: by the
\* first one only when it was queued into an empty queue.
C7_RemovedOnceInTurn ==
    /\ \A i \in 1..Len(command_queue) : command_queue[i].id > dequeues
    /\ Dequeued =>
          /\ effects.popped[1].id = dequeues
          /\ completions = effects.popped[1].at + effects.popped[1].ahead + 1

\* reached: a command queued behind another, removed by the second completion
\* after its enqueue
C7_Witness ==
    /\ Dequeued
    /\ effects.popped[1].ahead = 1
    /\ completions = effects.popped[1].at + 2

Lost == {p \in DOMAIN probes : probes[p] = "lost"}

Pending(id) == \E i \in 1..Len(command_queue) : command_queue[i].id = id

\* C8 as claimed: the command queued by the trigger of a probe that never
\* resolves stays in the queue.
C8_Original == \A p \in Lost : Pending(p)

Resolved == {p \in DOMAIN probes : probes[p] = "resolved"}

\* C8 (amended): the queue never holds fewer commands than there are probes
\* that never resolve. Which commands stay is decided by the order of the
\* triggers alone: the command queued by the k-th recognized trigger is in the
\* queue exactly as long as fewer than k probes have resolved, whichever
\* probes these are, and the k-th completion is the one that dispatches it.
\* So the command queued by the trigger of a probe that never resolves stays
\* for ever exactly when fewer than k probes resolve in all; otherwise it is
\* dispatched and the commands that stay are the ones queued last.
C8_PendingUntilKthCompletion ==
    /\ Len(command_queue) >= Cardinality(Lost)
    /\ \A k \in DOMAIN probes : Pending(k) <=> Cardinality(Resolved) < k
    /\ Dequeued => effects.popped[1].id = Cardinality(Resolved)

\* reached: of three triggers the probes of the first two never resolve and the
\* third has resolved: its completion has dispatched the first command, the
\* second and the third command stay queued
C8_Witness ==
    /\ probes = <<"lost", "lost", "resolved">>
    /\ Len(command_queue) = 2
    /\ command_queue[1].id = 2
    /\ command_queue[2].id = 3
    /\ Dequeued
    /\ effects.popped[1].id = 1

-----------------------------------------------------------------------------
(* The keybindings on their own: load with any configuration, then one     *)
(* trigger of any kind and direction, then the completion that dispatches  *)
(* it.                                                                     *)

str_CTRL == str(<<"C", "T", "R", "L">>)

str_aLT == str(<<"a", "L", "T">>)

\* U+00C4 L T
str_ALT_diaeresis == <<196, 76, 84>>

\* the values of a configuration key: unset, spellings of ctrl and alt, other texts
KeysConfigValues ==
    ConfigValues \cup {Some(str_CTRL), Some(str_aLT), Some(<<>>), Some(str(<<"c", "t", "l">>)),
                        Some(str_ALT_diaeresis)}

KeysConfigurations == [move_mod : KeysConfigValues, resize_mod : KeysConfigValues]

\* every pipe message parse_command turns into a Command
KeysPipeMessages ==
    { PipeMessage(name, Some(payload)) :
          name \in {"move_focus", "move_focus_or_tab", "resize"},
          payload \in {"left", "right", "up", "down"} }

LoadKeys == \E configuration \in KeysConfigurations : load(configuration)

\* the one trigger of the run
PipeKeys ==
    /\ enqueues = 0
    /\ \E pipe_message \in KeysPipeMessages : pipe(pipe_message)

NextKeys == LoadKeys \/ PipeKeys \/ ProbeCompletion

SpecKeys == Init /\ [][NextKeys]_vars

-----------------------------------------------------------------------------
(* Claims about the keybindings and the configuration *)

\* the last event dispatched a command as keystrokes
Injected == Dequeued /\ effects.calls[1].fn = "write_chars"

\* the translator of a modifier class
KeysOf(mod_key, direction) ==
    IF mod_key = "Ctrl" THEN ctrl_keybinding(direction) ELSE alt_keybinding(direction)

\* C11: the keystrokes injected for a dequeued command are those of the move
\* modifier for MoveFocus and MoveFocusOrTab (the same for both kinds in one
\* direction) and those of the resize modifier for Resize, whatever the other
\* modifier is. With the move modifier Alt and the occupant "nvim", MoveFocus(Up)
\* injects the escape byte followed by '@'.
C11_ModifierOfKind ==
    Injected =>
        LET command == effects.popped[1].command
            chars == effects.calls[1].chars
        IN  /\ command.kind \in {"MoveFocus", "MoveFocusOrTab"} =>
                  /\ chars = Some(KeysOf(move_mod, command.direction))
                  /\ \A kind \in {"MoveFocus", "MoveFocusOrTab"}, other \in Mods :
                        chars = Some(command_to_keybind(move_mod, other,
                                                        Command(kind, command.direction)))
            /\ command.kind = "Resize" =>
                  /\ chars = Some(KeysOf(resize_mod, command.direction))
                  /\ \A other \in Mods :
                        chars = Some(command_to_keybind(other, resize_mod, command))
            /\ (/\ command = Command("MoveFocus", "Up")
                /\ move_mod = "Alt"
                /\ current_term_command = Some(str_nvim)) => chars = Some(<<27, 64>>)

\* reached: MoveFocus(Up) dequeued under "nvim" with the move modifier Alt and
\* the resize modifier Ctrl; escape and '@' injected
C11_Witness ==
    /\ Injected
    /\ effects.popped[1].command = Command("MoveFocus", "Up")
    /\ move_mod = "Alt"
    /\ resize_mod = "Ctrl"
    /\ current_term_command = Some(str_nvim)
    /\ effects.calls = << Call("write_chars", Some(<<27, 64>>), None) >>

\* the modifier command_to_keybind reads for the command dispatched last
ModifierUsed ==
    IF effects.popped[1].command.kind = "Resize" THEN resize_mod ELSE move_mod

\* C12: the translators return a sequence for every direction: under Ctrl one
\* character, under Alt two characters of which the first is the escape byte;
\* the sequence injected is returned for no other direction of the same
\* modifier and for no direction of the other modifier.
C12_KeybindingsDistinct ==
    Injected =>
        LET chars == effects.calls[1].chars IN
        /\ pc = "running"
        /\ chars # None
        /\ ModifierUsed = "Ctrl" => Len(chars[1]) = 1
        /\ ModifierUsed = "Alt" => (Len(chars[1]) = 2 /\ chars[1][1] = 27)
        /\ \A mod_key \in Mods, direction \in Directions :
              KeysOf(mod_key, direction) = chars[1] =>
                  /\ mod_key = ModifierUsed
                  /\ direction = effects.popped[1].command.direction

\* reached: Resize(Right) dequeued under "vim" with the resize modifier Alt;
\* two characters injected, the first of them the escape byte
C12_Witness ==
    /\ Injected
    /\ effects.popped[1].command = Command("Resize", "Right")
    /\ resize_mod = "Alt"
    /\ move_mod = "Ctrl"
    /\ current_term_command = Some(str_vim)
    /\ Len(effects.calls[1].chars[1]) = 2
    /\ effects.calls[1].chars[1][1] = 27

-----------------------------------------------------------------------------
(* Further claims about the router *)

\* the step handles a RunCommandResult whose stdout is not UTF-8
UndecodableStep ==
    /\ pc = "running"
    /\ event'.type = "RunCommandResult"
    /\ ~event'.stdout.utf8

\* C13: a RunCommandResult whose stdout is not valid text aborts the handler
\* before anything else happens: the occupant and the queue keep the values
\* they had before the event, nothing is popped, and no external call and no
\* run_command call is made.
C13_UndecodableIsFatal ==
    [][UndecodableStep =>
          /\ pc' = "aborted"
          /\ effects' = NoEffects
          /\ UNCHANGED <<current_term_command, command_queue, dequeues, completions,
                         enqueues, move_mod, resize_mod, permissions_granted,
                         hidden>>]_vars

\* reached: the handler aborted on an undecodable stdout with a command queued
\* and the occupant "vim" learned from an earlier completion
C13_Witness ==
    /\ pc = "aborted"
    /\ event.type = "RunCommandResult"
    /\ ~event.stdout.utf8
    /\ Len(command_queue) = 1
    /\ current_term_command = Some(str_vim)
    /\ completions = 1
    /\ effects = NoEffects

\* the text s is the lower-case ASCII word spelled in some letter case
SpelledAs(s, word) ==
    /\ Len(s) = Len(word)
    /\ \A i \in 1..Len(word) :
          \E k \in 0..25 :
              /\ word[i] = char("a") + k
              /\ s[i] \in {char("a") + k, char("A") + k}

\* the modifier the spec names for the value of a configuration key, None for
\* a value that is to abort startup
ModifierNamed(value, default) ==
    IF value = None THEN Some(default)
    ELSE IF SpelledAs(value[1], str(<<"c", "t", "r", "l">>)) THEN Some("Ctrl")
    ELSE IF SpelledAs(value[1], str(<<"a", "l", "t">>)) THEN Some("Alt")
    ELSE None

\* the step is load
LoadStep == pc = "load" /\ event'.type = "load"

\* C14: load sets the move modifier to Ctrl when move_mod is unset and the
\* resize modifier to Alt when resize_mod is unset, and to the class a value
\* names when it spells ctrl or alt in any letter case; with any other value
\* for either key load aborts, and after an abort no pipe message and no
\* RunCommandResult is handled: each is handled with both modifiers as load
\* set them.
C14_ConfiguredModifiers ==
    [][/\ LoadStep =>
             LET move == ModifierNamed(event'.configuration.move_mod, "Ctrl")
                 resize == ModifierNamed(event'.configuration.resize_mod, "Alt")
             IN  IF move # None /\ resize # None
                 THEN /\ pc' = "running"
                      /\ move_mod' = move[1]
                      /\ resize_mod' = resize[1]
                 ELSE pc' = "aborted"
       /\ ~LoadStep =>
             /\ pc = "running"
             /\ event'.type \in {"pipe", "RunCommandResult"}
             /\ UNCHANGED <<move_mod, resize_mod>>]_vars

\* reached: load with move_mod "aLT" and resize_mod "CTRL" has selected Alt
\* for moves and Ctrl for resizes
C14_Witness ==
    /\ event.type = "load"
    /\ event.configuration = [move_mod |-> Some(str_aLT), resize_mod |-> Some(str_CTRL)]
    /\ pc = "running"
    /\ move_mod = "Alt"
    /\ resize_mod = "Ctrl"

\* C15: a completion that dequeues a command has first stored the
\* classification of its own stdout as the occupant, absent included, and
\* routes the command by that classification alone: keystrokes when its stdout
\* names vim or nvim, the native action otherwise.
C15_RoutedByOwnPayload ==
    Dequeued =>
        LET occupant == ExpectedOccupant(event.stdout.table) IN
        /\ event.type = "RunCommandResult"
        /\ current_term_command = occupant
        /\ Len(effects.calls) = 1
        /\ (effects.calls[1].fn = "write_chars") <=> (occupant \in {Some(str_vim), Some(str_nvim)})

\* reached: a command triggered after a first completion is dequeued by a
\* second completion that reports no command in the pane: the occupant is
\* absent and the native action is taken
C15_Witness ==
    /\ Dequeued
    /\ completions = 2
    /\ effects.popped[1].at = 1
    /\ event.stdout.table.rows[2][3] = col_NA
    /\ current_term_command = None
    /\ effects.calls[1].fn # "write_chars"

\* C16: the pushes so far are the pops so far plus the entries queued. Each
\* push is queued or popped, never both and never twice: the entries queued
\* are pushes dequeues+1 .. enqueues, each once, the entry popped last is push
\* number dequeues, and it is dispatched by one call; an event that pops
\* nothing dispatches nothing.
C16_Conservation ==
    /\ enqueues = dequeues + Len(command_queue)
    /\ \A i \in 1..Len(command_queue) : command_queue[i].id \in (dequeues + 1)..enqueues
    /\ \A i, j \in 1..Len(command_queue) :
          command_queue[i].id = command_queue[j].id => i = j
    /\ IF Dequeued
       THEN /\ Len(effects.popped) = 1
            /\ effects.popped[1].id = dequeues
            /\ ~Pending(effects.popped[1].id)
            /\ Len(effects.calls) = 1
       ELSE effects.calls = <<>>

\* reached: two triggers, one completion and a permission result, in an order
\* that ends with the permission result: one command dispatched, one queued
C16_Witness ==
    /\ event.type = "PermissionRequestResult"
    /\ enqueues = 2
    /\ dequeues = 1
    /\ Len(command_queue) = 1
    /\ command_queue[1].id = 2

\* C17: the occupant is absent when load is called and no step but
\* the handling of a RunCommandResult changes it: not load, not a pipe message
\* of either sort, not a permission result. A permission result leaves the
\* queue as it is, and once load has returned no event changes move_mod or
\* resize_mod.
C17_Frame ==
    [][/\ pc = "load" => current_term_command = None
       /\ event'.type # "RunCommandResult" => UNCHANGED current_term_command
       /\ event'.type = "PermissionRequestResult" =>
              UNCHANGED <<current_term_command, command_queue, enqueues, dequeues>>
       /\ pc = "running" => UNCHANGED <<move_mod, resize_mod>>]_vars

\* reached: a permission result handled with the occupant "nvim" known, a
\* command queued and the modifiers Alt for moves, Ctrl for resizes
C17_Witness ==
    /\ event.type = "PermissionRequestResult"
    /\ current_term_command = Some(str_nvim)
    /\ Len(command_queue) = 1
    /\ move_mod = "Alt"
    /\ resize_mod = "Ctrl"

-----------------------------------------------------------------------------
(* Claims about the router under a host that answers run_command calls *)

\* the run_command calls not answered so far
Outstanding == {p \in DOMAIN probes : probes[p] # "resolved"}

\* C18: when every RunCommandResult answers a run_command call of its own and
\* is text, the queue holds as many commands as run_command calls were made
\* minus RunCommandResult events handled: it is non-empty exactly when a call
\* is unanswered, and every RunCommandResult handled has found a command to
\* dequeue.
C18_QueueMatchesProbes ==
    /\ Len(command_queue) = Len(probes) - completions
    /\ Len(command_queue) = Cardinality(Outstanding)
    /\ (command_queue # <<>>) <=> (Outstanding # {})
    /\ event.type = "RunCommandResult" => (Dequeued /\ pc = "running")

\* reached: two run_command calls, the first answered and its completion has
\* dequeued a command; one call unanswered, one command queued
C18_Witness ==
    /\ event.type = "RunCommandResult"
    /\ Dequeued
    /\ Len(probes) = 2
    /\ probes[1] = "resolved"
    /\ probes[2] = "outstanding"
    /\ completions = 1
    /\ Len(command_queue) = 1

-----------------------------------------------------------------------------
(* The router under a host that answers every run_command call: each call  *)
(* made is answered in the end, once, with text. The pipe delivers finitely *)
(* many messages (MaxPipes).                                               *)

NextFair == LoadDefaults \/ Pipe \/ ProbeCompletion \/ PermissionRequestResult

\* the host answers the probe-th run_command call: the step is the
\* ProbeCompletion that resolves it
ProbeAnswered(probe) ==
    /\ probe \in DOMAIN probes
    /\ probes[probe] = "outstanding"
    /\ probes' = [probes EXCEPT ![probe] = "resolved"]

\* a run_command call does not stay unanswered for ever
HostAnswers == \A probe \in 1..MaxPipes : WF_probes(ProbeAnswered(probe))

SpecFair == Init /\ [][NextFair]_vars /\ HostAnswers

\* C19: when the host answers every run_command call with text and pipe
\* messages stop arriving, every command pushed is popped and dispatched in
\* the end, and from some point on the queue is empty for ever.
C19_QueueDrains ==
    /\ \A id \in 1..MaxPipes : (enqueues >= id) ~> (dequeues >= id)
    /\ <>[](command_queue = <<>> /\ enqueues = dequeues)

\* reached: two commands pushed, both run_command calls answered, both
\* commands dispatched, the queue empty
C19_Witness ==
    /\ enqueues = 2
    /\ dequeues = 2
    /\ completions = 2
    /\ command_queue = <<>>
    /\ \A p \in DOMAIN probes : probes[p] = "resolved"
    /\ Dequeued

=============================================================================
